---- MODULE Spec2Model ----
(***************************************************************************)
(* PeduliGiziBalita (Flask edition): the z-score pipeline and the KPSP     *)
(* screening evaluator of app.py.                                          *)
(*                                                                         *)
(* Units.  Measurements (kg, cm) are integers in tenths, ages are whole    *)
(* months, z-scores are integers in thousandths.  An optional float        *)
(* (Optional[float]) is a record [some, val].  A JSON value of the request *)
(* body is a record [k, v] (number-like fields) or [k, s] (string-like     *)
(* fields), k being the JSON kind.                                         *)
(***************************************************************************)
EXTENDS Integers, Sequences, FiniteSets, TLC

VARIABLES calc, phase, op, request, engine, lookup, response, unit,
          table, pc, locals, answered

\* the state of one call served at a time
callVars == <<phase, op, request, engine, lookup, response, unit>>
\* the state of the worker threads of the threaded server
threadVars == <<pc, locals>>

vars == <<calc, phase, op, request, engine, lookup, response, unit,
          table, pc, locals, answered>>

-----------------------------------------------------------------------------
(* Bounds of the model *)

ZMax == 3100            \* classify_nutrition is applied to -ZMax..ZMax (thousandths)
MaxAge == 26            \* KPSP ages range over -1..MaxAge months
MaxAnswers == 6         \* KPSP answer lists have 0..MaxAnswers entries
MaxMeasure == 1300      \* validate_measurement is applied to 0..MaxMeasure (tenths)
NThreads == 2           \* worker threads serving requests at the same time
MaxRepeats == 2         \* the times one request is counted in a request history

-----------------------------------------------------------------------------
(* Optional floats *)

None == [some |-> FALSE, val |-> 0]
Some(x) == [some |-> TRUE, val |-> x]

(* JSON values of number-like fields *)
Absent == [k |-> "absent", v |-> 0]
JNull == [k |-> "null", v |-> 0]
JEmpty == [k |-> "empty", v |-> 0]
JText == [k |-> "text", v |-> 0]
JNum(x) == [k |-> "num", v |-> x]

\* as_float: None for a missing key (data.get gives None), null, '' and
\* anything float() rejects; the number otherwise.
as_float(x) ==
  IF x.k = "num" THEN Some(x.v) ELSE None

-----------------------------------------------------------------------------
(* BOUNDS, in tenths of kg / cm *)

BoundKeys == {"wfa", "hfa", "hcfa", "wfl_w", "wfl_l"}

BOUNDS ==
  [key \in BoundKeys |->
     CASE key = "wfa" -> <<10, 300>>
       [] key = "hfa" -> <<450, 1250>>
       [] key = "hcfa" -> <<300, 550>>
       [] key = "wfl_w" -> <<10, 300>>
       [] key = "wfl_l" -> <<450, 1100>>]

\* bug variant: the bounds taken as exclusive
validate_measurement_exclusive(value, bounds) ==
  value.some /\ bounds[1] < value.val /\ value.val < bounds[2]

validate_measurement(value, bounds) ==
  LET min_val == bounds[1]
      max_val == bounds[2]
  IN IF ~value.some THEN FALSE
     ELSE IF ~(min_val <= value.val /\ value.val <= max_val) THEN FALSE
     ELSE TRUE

-----------------------------------------------------------------------------
(* classify_nutrition: the category of a z-score (thousandths) *)

\* bug variant: "if not z_score" instead of "if z_score is None", so that a
\* z-score of 0 cannot be assessed
classify_nutrition_falsy(z) ==
  IF ~z.some \/ z.val = 0 THEN "unknown"
  ELSE IF z.val < -3000 THEN "severe_underweight"
  ELSE IF z.val < -2000 THEN "underweight"
  ELSE IF z.val <= 1000 THEN "normal"
  ELSE IF z.val <= 2000 THEN "risk_overweight"
  ELSE IF z.val <= 3000 THEN "overweight"
  ELSE "obese"

\* bug variant: z = 1 no longer counts as normal
classify_nutrition_strict(z) ==
  IF ~z.some THEN "unknown"
  ELSE IF z.val < -3000 THEN "severe_underweight"
  ELSE IF z.val < -2000 THEN "underweight"
  ELSE IF z.val < 1000 THEN "normal"
  ELSE IF z.val <= 2000 THEN "risk_overweight"
  ELSE IF z.val <= 3000 THEN "overweight"
  ELSE "obese"

classify_nutrition(z) ==
  IF ~z.some THEN "unknown"
  ELSE IF z.val < -3000 THEN "severe_underweight"
  ELSE IF z.val < -2000 THEN "underweight"
  ELSE IF z.val <= 1000 THEN "normal"
  ELSE IF z.val <= 2000 THEN "risk_overweight"
  ELSE IF z.val <= 3000 THEN "overweight"
  ELSE "obese"

\* the "status" and "color" entries of the dict classify_nutrition returns
StatusOf(category) ==
  CASE category = "unknown" -> "Tidak dapat dinilai"
    [] category = "severe_underweight" -> "Gizi Buruk"
    [] category = "underweight" -> "Gizi Kurang"
    [] category = "normal" -> "Gizi Baik"
    [] category = "risk_overweight" -> "Berisiko Gizi Lebih"
    [] category = "overweight" -> "Gizi Lebih"
    [] category = "obese" -> "Obesitas"

ColorOf(category) ==
  CASE category = "unknown" -> "#9e9e9e"
    [] category = "severe_underweight" -> "#d32f2f"
    [] category = "underweight" -> "#f57c00"
    [] category = "normal" -> "#388e3c"
    [] category = "risk_overweight" -> "#fbc02d"
    [] category = "overweight" -> "#f57c00"
    [] category = "obese" -> "#d32f2f"

-----------------------------------------------------------------------------
(* The WHO calculator (pygrowup.Calculator), an external library.  A call  *)
(* either returns a z-score, returns nothing, or raises; which one is the  *)
(* library's answer `out`, except that a call with a missing operand       *)
(* cannot produce a score.                                                 *)

ZReturn(z) == [k |-> "z", v |-> z]
Raise == [k |-> "raise", v |-> 0]
ReturnsNone == [k |-> "none", v |-> 0]

ZSamples ==
  {-3001, -3000, -2001, -2000, -500, 1000, 1001, 1995, 2000, 2001, 3000, 3001}

CalcOutcomes == {ZReturn(z) : z \in ZSamples} \cup {Raise, ReturnsNone}

CalcCall(method, measurement, key, sex, out) ==
  IF ~measurement.some \/ ~key.some THEN Raise ELSE out

NoLookup ==
  [made |-> FALSE, method |-> "", measurement |-> None, key |-> None, sex |-> "",
   result |-> ""]

\* bug variant: the exception of a failed lookup is re-raised
TryCalcReraise(method, measurement, key, sex, out) ==
  LET res == CalcCall(method, measurement, key, sex, out)
  IN [z |-> IF res.k = "z" THEN Some(res.v) ELSE None,
      raised |-> res.k = "raise",
      lookup |-> [made |-> TRUE, method |-> method, measurement |-> measurement,
                  key |-> key, sex |-> sex, result |-> res.k]]

\* calc.<method>(measurement, key, sex) inside the try block of
\* calculate_z_score: an exception is caught and becomes None.
TryCalc(method, measurement, key, sex, out) ==
  LET res == CalcCall(method, measurement, key, sex, out)
  IN [z |-> IF res.k = "z" THEN Some(res.v) ELSE None,
      raised |-> FALSE,
      lookup |-> [made |-> TRUE, method |-> method, measurement |-> measurement,
                  key |-> key, sex |-> sex, result |-> res.k]]

NoIndex == [z |-> None, raised |-> FALSE, lookup |-> NoLookup]

\* bug variant: an unknown kind falls back to weight-for-age
calculate_z_score_fallback(weight, height, age_months, gender, measurement_type, out) ==
  IF calc = "None" THEN NoIndex
  ELSE IF measurement_type.k # "str" THEN TryCalc("wfa", weight, age_months, gender, out)
  ELSE IF measurement_type.s = "hfa" THEN TryCalc("hfa", height, age_months, gender, out)
  ELSE IF measurement_type.s = "wfh" THEN TryCalc("wfh", weight, height, gender, out)
  ELSE IF measurement_type.s = "bfa" THEN TryCalc("bfa", weight, height, gender, out)
  ELSE IF measurement_type.s = "hcfa" THEN TryCalc("hcfa", weight, age_months, gender, out)
  ELSE TryCalc("wfa", weight, age_months, gender, out)

calculate_z_score(weight, height, age_months, gender, measurement_type, out) ==
  IF calc = "None" THEN NoIndex
  ELSE IF measurement_type.k # "str" THEN NoIndex
  ELSE IF measurement_type.s = "wfa" THEN TryCalc("wfa", weight, age_months, gender, out)
  ELSE IF measurement_type.s = "hfa" THEN TryCalc("hfa", height, age_months, gender, out)
  ELSE IF measurement_type.s = "wfh" THEN TryCalc("wfh", weight, height, gender, out)
  ELSE IF measurement_type.s = "bfa" THEN TryCalc("bfa", weight, height, gender, out)
  ELSE IF measurement_type.s = "hcfa" THEN TryCalc("hcfa", weight, age_months, gender, out)
  ELSE NoIndex

-----------------------------------------------------------------------------
(* POST /api/calculate-zscore *)

\* round(z_score, 2): thousandths to hundredths, ties to even
Round2(z) ==
  LET q == z \div 10
      r == z % 10
  IN IF r < 5 THEN q
     ELSE IF r > 5 THEN q + 1
     ELSE IF q % 2 = 0 THEN q ELSE q + 1

\* bug variant: the gender is compared as sent, without upper()
UpperMissing(s) == s

\* str.upper() on the gender strings of the model
Upper(s) ==
  CASE s = "m" -> "M"
    [] s = "f" -> "F"
    [] s = "x" -> "X"
    [] OTHER -> s

NoEngine ==
  [invoked |-> FALSE, weight |-> None, height |-> None, age_months |-> None,
   gender |-> "", type |-> [k |-> "absent", s |-> ""]]

NoResponse ==
  [status |-> 0, keys |-> {}, error |-> "", z_score |-> None, category |-> "",
   gender |-> "", age_group |-> None, score |-> None, total_questions |-> None,
   result |-> ""]

\* jsonify({"error": msg}), code
ErrorResponse(code, msg) ==
  [NoResponse EXCEPT !.status = code, !.keys = {"error"}, !.error = msg]

\* bug variant: no except clause, the exception leaves the handler and no
\* response is built
Escapes(text) == [NoResponse EXCEPT !.error = text]

\* except Exception as e: return jsonify({"error": str(e)}), 500
Caught(text) == ErrorResponse(500, text)

\* jsonify({"z_score": round(z_score, 2), "classification": ..., ...}), 200
ZscoreResponse(z, category, gender) ==
  [NoResponse EXCEPT
     !.status = 200,
     !.keys = {"z_score", "classification", "measurement_type", "inputs"},
     !.z_score = Some(Round2(z.val)), !.category = category, !.gender = gender]

\* bug variant: the z_score is None check is missing
ZscoreResultUnchecked(r, gender) ==
  IF r.raised THEN ErrorResponse(500, "exception: lookup")
  ELSE [NoResponse EXCEPT
          !.status = 200,
          !.keys = {"z_score", "classification", "measurement_type", "inputs"},
          !.z_score = IF r.z.some THEN Some(Round2(r.z.val)) ELSE None,
          !.category = classify_nutrition(r.z), !.gender = gender]

\* the handler after calculate_z_score: the None check, classification, response;
\* an exception raised on the way reaches the handler's except clause
ZscoreResult(r, gender) ==
  IF r.raised THEN Caught("exception: lookup")
  ELSE IF ~r.z.some THEN ErrorResponse(500, "Could not calculate z-score")
  ELSE ZscoreResponse(r.z, classify_nutrition(r.z), gender)

Rejected(resp) == [engine |-> NoEngine, lookup |-> NoLookup, response |-> resp]

\* bug variant: only the weight is required
MissingRequiredWeightOnly(weight, age_months) == ~weight.some

\* the required-field check of the handler
MissingRequired(weight, age_months) == ~weight.some \/ ~age_months.some

GenderAllowed(gender) == gender \in {"M", "F"}

api_calculate_zscore(data, out) ==
  IF data.kind # "object"
  THEN Rejected(Caught("exception: no attribute get"))
  ELSE
    LET weight == as_float(data.weight)
        height == as_float(data.height)
        age_months == as_float(data.age_months)
    IN IF data.gender.k \notin {"absent", "str"}
       THEN Rejected(Caught("exception: no attribute upper"))
       ELSE
         LET gender == Upper(IF data.gender.k = "absent" THEN "M" ELSE data.gender.s)
             measurement_type ==
               IF data.type.k = "absent" THEN [k |-> "str", s |-> "wfa"] ELSE data.type
         IN IF MissingRequired(weight, age_months)
            THEN Rejected(ErrorResponse(400, "Weight and age are required"))
            ELSE IF ~GenderAllowed(gender)
            THEN Rejected(ErrorResponse(400, "Gender must be M or F"))
            ELSE
              LET r == calculate_z_score(weight, height, age_months, gender,
                                         measurement_type, out)
                  eng == [invoked |-> TRUE, weight |-> weight, height |-> height,
                          age_months |-> age_months, gender |-> gender,
                          type |-> measurement_type]
              IN [engine |-> eng,
                  lookup |-> r.lookup,
                  response |-> ZscoreResult(r, gender)]

-----------------------------------------------------------------------------
(* POST /api/kpsp-evaluate *)

\* sorted(KPSP_QUESTIONS.keys())
KPSP_AGES == <<3, 6, 9, 12, 15, 18, 21, 24>>

\* len(KPSP_QUESTIONS[age]): every question set has five questions
KPSP_QUESTIONS == [age \in {KPSP_AGES[i] : i \in DOMAIN KPSP_AGES} |-> 5]

\* bug variant: the comparison is strict, an age on a threshold misses its band
RECURSIVE FindAgeGroupStrict(_, _, _)
FindAgeGroupStrict(i, age_months, age_group) ==
  IF i > Len(KPSP_AGES) THEN age_group
  ELSE FindAgeGroupStrict(i + 1, age_months,
                          IF age_months > KPSP_AGES[i] THEN Some(KPSP_AGES[i])
                          ELSE age_group)

\* bug variant: an age below every threshold gets the first band
RECURSIVE FindAgeGroupOrFirst(_, _, _)
FindAgeGroupOrFirst(i, age_months, age_group) ==
  IF i > Len(KPSP_AGES)
  THEN (IF age_group.some THEN age_group ELSE Some(KPSP_AGES[1]))
  ELSE FindAgeGroupOrFirst(i + 1, age_months,
                           IF age_months >= KPSP_AGES[i] THEN Some(KPSP_AGES[i])
                           ELSE age_group)

\* for age in sorted(KPSP_QUESTIONS.keys()): if age_months >= age: age_group = age
RECURSIVE FindAgeGroup(_, _, _)
FindAgeGroup(i, age_months, age_group) ==
  IF i > Len(KPSP_AGES) THEN age_group
  ELSE FindAgeGroup(i + 1, age_months,
                    IF age_months >= KPSP_AGES[i] THEN Some(KPSP_AGES[i]) ELSE age_group)

\* sum(1 for answer in answers if answer)
RECURSIVE Score(_)
Score(answers) ==
  IF answers = <<>> THEN 0
  ELSE (IF Head(answers) THEN 1 ELSE 0) + Score(Tail(answers))

\* bug variant: the thresholds are exclusive
KpspResultExclusive(score, n) ==
  IF 10 * score > n * 8 THEN "Perkembangan Sesuai Usia"
  ELSE IF 10 * score > n * 6 THEN "Perkembangan Terduga Terlambat"
  ELSE "Perkembangan Terlambat"

\* score >= len(questions) * 0.8, score >= len(questions) * 0.6, in tenths
KpspResult(score, n) ==
  IF 10 * score >= n * 8 THEN "Perkembangan Sesuai Usia"
  ELSE IF 10 * score >= n * 6 THEN "Perkembangan Terduga Terlambat"
  ELSE "Perkembangan Terlambat"

KpspResponse(age_group, score, n, result) ==
  [NoResponse EXCEPT
     !.status = 200,
     !.keys = {"age_group", "score", "total_questions", "result", "color",
               "recommendation", "questions", "answers"},
     !.age_group = Some(age_group), !.score = Some(score),
     !.total_questions = Some(n), !.result = result]

api_kpsp_evaluate(data) ==
  IF data.kind # "object"
  THEN Caught("exception: no attribute get")
  ELSE
    LET age_months == as_float(data.age_months)
        answers == IF data.answers.k = "absent" THEN <<>> ELSE data.answers.l
    IN IF ~age_months.some
       THEN ErrorResponse(400, "Age is required")
       ELSE
         LET age_group == FindAgeGroup(1, age_months.val, None)
         IN IF ~age_group.some
            THEN ErrorResponse(400, "No KPSP questions available for this age")
            ELSE
              LET questions == KPSP_QUESTIONS[age_group.val]
              IN IF data.answers.k = "scalar"
                 THEN Caught("exception: no len")
                 ELSE IF Len(answers) # questions
                 THEN ErrorResponse(400, "Number of answers doesn't match questions")
                 ELSE KpspResponse(age_group.val, Score(answers), questions,
                                   KpspResult(Score(answers), questions))

-----------------------------------------------------------------------------
(* Request bodies *)

GAbsent == [k |-> "absent", s |-> ""]
GNull == [k |-> "null", s |-> ""]
GNum == [k |-> "num", s |-> ""]
GStr(s) == [k |-> "str", s |-> s]

WeightInputs == {Absent, JNull, JEmpty, JText, JNum(95), JNum(5000)}
HeightInputs == {Absent, JNum(750), JNum(1300)}
AgeInputs == {Absent, JNum(12), JNum(70)}
GenderInputs == {GAbsent, GNull, GNum} \cup {GStr(s) : s \in {"M", "F", "m", "f", "x"}}
TypeInputs ==
  {GAbsent, GNull} \cup {GStr(s) : s \in {"wfa", "hfa", "wfh", "bfa", "hcfa", "xyz"}}

NotAnObject ==
  [kind |-> "other", weight |-> Absent, height |-> Absent, age_months |-> Absent,
   gender |-> GAbsent, type |-> GAbsent]

ZscoreBodies ==
  [kind : {"object"}, weight : WeightInputs, height : HeightInputs,
   age_months : AgeInputs, gender : GenderInputs, type : TypeInputs]
  \cup {NotAnObject}

BoolSeqs(n) == UNION {[1..m -> BOOLEAN] : m \in 0..n}

KpspAgeInputs == {Absent, JNull, JText} \cup {JNum(a) : a \in -1..MaxAge}
AnswerInputs ==
  {[k |-> "absent", l |-> <<>>], [k |-> "scalar", l |-> <<>>]}
  \cup {[k |-> "list", l |-> l] : l \in BoolSeqs(MaxAnswers)}

KpspBodies ==
  [kind : {"object"}, age_months : KpspAgeInputs, answers : AnswerInputs]
  \cup {[kind |-> "other", age_months |-> Absent, answers |-> [k |-> "absent", l |-> <<>>]]}

NoRequest == [kind |-> "none"]

-----------------------------------------------------------------------------
(* The requests, the reference table and the threads of the threaded server *)

Threads == 1..NThreads

ZBody(weight, height, age_months, gender, type) ==
  [kind |-> "object", weight |-> weight, height |-> height,
   age_months |-> age_months, gender |-> gender, type |-> type]

\* z-score requests sent at the same time or one after the other
HistBodies ==
  {ZBody(JNum(95), Absent, JNum(12), GStr("M"), GStr("wfa")),
   ZBody(JNum(5000), Absent, JNum(12), GStr("f"), GAbsent),
   ZBody(Absent, JNum(750), JNum(12), GStr("M"), GStr("hfa")),
   ZBody(JNum(95), Absent, JNum(12), GNull, GStr("wfa")),
   ZBody(JNum(95), JNum(750), JNum(12), GAbsent, GStr("xyz"))}

KBody(age_months, answers) ==
  [kind |-> "object", age_months |-> age_months, answers |-> answers]

ConcKpspBodies ==
  {KBody(JNum(12), [k |-> "list", l |-> <<TRUE, TRUE, TRUE, FALSE, FALSE>>]),
   KBody(JNum(2), [k |-> "absent", l |-> <<>>])}

\* the lookups of the reference table these requests lead to, and its answers
ConcCalls ==
  {<<"wfa", Some(95), Some(12), "M">>, <<"wfa", Some(5000), Some(12), "F">>}
ConcOutcomes == {ZReturn(1001), Raise}

\* the first response given to a request and the times it was sent
NotAnswered == [first |-> NoResponse, times |-> 0]

NoLocals ==
  [endpoint |-> "", data |-> NoRequest, eng |-> NoEngine, r |-> NoIndex,
   response |-> NoResponse]

-----------------------------------------------------------------------------
(* The state machine: the process starts, then serves one call at a time;  *)
(* Deliver hands the response back and returns to idle.                    *)

NoUnit ==
  [value |-> None, key |-> "", category |-> "", status |-> "", color |-> "",
   ok |-> FALSE]

\* no call is being served
CallIdle ==
  /\ phase = "idle"
  /\ op = "none"
  /\ request = NoRequest
  /\ engine = NoEngine
  /\ lookup = NoLookup
  /\ response = NoResponse
  /\ unit = NoUnit

\* no worker thread is serving a request
ThreadsIdle ==
  /\ pc = [t \in Threads |-> "idle"]
  /\ locals = [t \in Threads |-> NoLocals]

\* calc = None; try: calc = Calculator(**CALC_CONFIG) except: calc = None
Init ==
  /\ calc \in {"Calculator", "None"}
  /\ CallIdle
  /\ ThreadsIdle
  /\ table = [c \in ConcCalls |-> Raise]
  /\ answered = [d \in HistBodies |-> NotAnswered]

ApiCalculateZscore(data, out) ==
  /\ phase = "idle"
  /\ LET h == api_calculate_zscore(data, out)
     IN /\ engine' = h.engine
        /\ lookup' = h.lookup
        /\ response' = h.response
  /\ phase' = "done"
  /\ op' = "zscore"
  /\ request' = data
  /\ UNCHANGED <<calc, unit, table, pc, locals, answered>>

ApiKpspEvaluate(data) ==
  /\ phase = "idle"
  /\ response' = api_kpsp_evaluate(data)
  /\ phase' = "done"
  /\ op' = "kpsp"
  /\ request' = data
  /\ UNCHANGED <<calc, engine, lookup, unit, table, pc, locals, answered>>

\* a direct application of classify_nutrition
ClassifyNutrition(z_score) ==
  /\ phase = "idle"
  /\ unit' = [NoUnit EXCEPT !.value = z_score,
                            !.category = classify_nutrition(z_score),
                            !.status = StatusOf(classify_nutrition(z_score)),
                            !.color = ColorOf(classify_nutrition(z_score))]
  /\ phase' = "done"
  /\ op' = "classify"
  /\ UNCHANGED <<calc, request, engine, lookup, response, table, pc, locals, answered>>

\* a direct application of validate_measurement to a row of BOUNDS
ValidateMeasurement(value, key) ==
  /\ phase = "idle"
  /\ unit' = [NoUnit EXCEPT !.value = value, !.key = key,
                            !.ok = validate_measurement(value, BOUNDS[key])]
  /\ phase' = "done"
  /\ op' = "validate"
  /\ UNCHANGED <<calc, request, engine, lookup, response, table, pc, locals, answered>>

Deliver ==
  /\ phase = "done"
  /\ phase' = "idle"
  /\ op' = "none"
  /\ request' = NoRequest
  /\ engine' = NoEngine
  /\ lookup' = NoLookup
  /\ response' = NoResponse
  /\ unit' = NoUnit
  /\ UNCHANGED <<calc, table, pc, locals, answered>>

ZInputs == {None} \cup {Some(z) : z \in -ZMax..ZMax}
MeasureInputs == {None} \cup {Some(v) : v \in 0..MaxMeasure}

Next ==
  \/ phase = "idle" /\ \E data \in ZscoreBodies, out \in CalcOutcomes :
                         ApiCalculateZscore(data, out)
  \/ phase = "idle" /\ \E data \in KpspBodies : ApiKpspEvaluate(data)
  \/ phase = "idle" /\ \E z \in ZInputs : ClassifyNutrition(z)
  \/ phase = "idle" /\ \E v \in MeasureInputs, key \in BoundKeys :
                         ValidateMeasurement(v, key)
  \/ Deliver

Spec == Init /\ [][Next]_vars

-----------------------------------------------------------------------------
(* The reference table: one fixed answer for every lookup *)

\* the answer of the table to the lookup calculate_z_score makes, if any
TableAnswer(weight, height, age_months, gender, measurement_type) ==
  LET lk == calculate_z_score(weight, height, age_months, gender,
                              measurement_type, Raise).lookup
      key == <<lk.method, lk.measurement, lk.key, lk.sex>>
  IN IF lk.made /\ key \in ConcCalls THEN table[key] ELSE Raise

\* bug variant: the last successful result is kept and returned again
HandleZscoreStale(data) ==
  IF response.status = 200
  THEN [engine |-> engine, lookup |-> lookup, response |-> response]
  ELSE
    LET eng == api_calculate_zscore(data, Raise).engine
        out == IF eng.invoked
               THEN TableAnswer(eng.weight, eng.height, eng.age_months, eng.gender,
                                eng.type)
               ELSE Raise
    IN api_calculate_zscore(data, out)

\* the handler of POST /api/calculate-zscore run on its own against the table
HandleZscore(data) ==
  LET eng == api_calculate_zscore(data, Raise).engine
      out == IF eng.invoked
             THEN TableAnswer(eng.weight, eng.height, eng.age_months, eng.gender,
                              eng.type)
             ELSE Raise
  IN api_calculate_zscore(data, out)

-----------------------------------------------------------------------------
(* The threaded server (app.run(threaded=True)): every request is served   *)
(* by a thread of its own; the steps of the handlers interleave.           *)

\* bug variant: the fields of the request are kept in one module-level slot,
\* which holds those of the first thread that is serving a request
SharedFields(t) == locals[CHOOSE u \in Threads : pc[u] # "idle"]

\* the request and the local variables of the handler running in thread t
Fields(t) == locals[t]

InitConc ==
  /\ calc \in {"Calculator", "None"}
  /\ CallIdle
  /\ ThreadsIdle
  /\ table \in [ConcCalls -> ConcOutcomes]
  /\ answered = [d \in HistBodies |-> NotAnswered]

\* data = request.get_json() in a new thread
ConcReceive(t, endpoint, data) ==
  /\ pc[t] = "idle"
  /\ pc' = [pc EXCEPT ![t] = "parsed"]
  /\ locals' = [locals EXCEPT ![t] = [NoLocals EXCEPT !.endpoint = endpoint,
                                                       !.data = data]]
  /\ UNCHANGED <<calc, table, answered, callVars>>

\* api_calculate_zscore up to the call of calculate_z_score
ConcCheck(t) ==
  /\ pc[t] = "parsed"
  /\ Fields(t).endpoint = "zscore"
  /\ LET h == api_calculate_zscore(Fields(t).data, Raise)
     IN IF h.engine.invoked
        THEN /\ locals' = [locals EXCEPT ![t].eng = h.engine]
             /\ pc' = [pc EXCEPT ![t] = "checked"]
        ELSE /\ locals' = [locals EXCEPT ![t].response = h.response]
             /\ pc' = [pc EXCEPT ![t] = "done"]
  /\ UNCHANGED <<calc, table, answered, callVars>>

\* z_score = calculate_z_score(...): reads calc and the reference table
ConcCompute(t) ==
  /\ pc[t] = "checked"
  /\ LET e == Fields(t).eng
         out == TableAnswer(e.weight, e.height, e.age_months, e.gender, e.type)
     IN locals' = [locals EXCEPT ![t].r =
                     calculate_z_score(e.weight, e.height, e.age_months, e.gender,
                                       e.type, out)]
  /\ pc' = [pc EXCEPT ![t] = "computed"]
  /\ UNCHANGED <<calc, table, answered, callVars>>

\* the None check, classify_nutrition and the response
ConcRespond(t) ==
  /\ pc[t] = "computed"
  /\ locals' = [locals EXCEPT ![t].response =
                  ZscoreResult(Fields(t).r, Fields(t).eng.gender)]
  /\ pc' = [pc EXCEPT ![t] = "done"]
  /\ UNCHANGED <<calc, table, answered, callVars>>

\* api_kpsp_evaluate: reads KPSP_QUESTIONS
ConcKpsp(t) ==
  /\ pc[t] = "parsed"
  /\ Fields(t).endpoint = "kpsp"
  /\ locals' = [locals EXCEPT ![t].response = api_kpsp_evaluate(Fields(t).data)]
  /\ pc' = [pc EXCEPT ![t] = "done"]
  /\ UNCHANGED <<calc, table, answered, callVars>>

\* the response is sent and the thread ends
ConcReturn(t) ==
  /\ pc[t] = "done"
  /\ pc' = [pc EXCEPT ![t] = "idle"]
  /\ locals' = [locals EXCEPT ![t] = NoLocals]
  /\ UNCHANGED <<calc, table, answered, callVars>>

NextConc ==
  \/ \E t \in Threads, data \in HistBodies : ConcReceive(t, "zscore", data)
  \/ \E t \in Threads, data \in ConcKpspBodies : ConcReceive(t, "kpsp", data)
  \/ \E t \in Threads : ConcCheck(t)
  \/ \E t \in Threads : ConcCompute(t)
  \/ \E t \in Threads : ConcRespond(t)
  \/ \E t \in Threads : ConcKpsp(t)
  \/ \E t \in Threads : ConcReturn(t)

SpecConc == InitConc /\ [][NextConc]_vars

-----------------------------------------------------------------------------
(* A history of z-score requests, served one after the other against the   *)
(* same reference table.                                                   *)

InitHist == InitConc

HistRequest(data) ==
  /\ LET h == HandleZscore(data)
     IN /\ engine' = h.engine
        /\ lookup' = h.lookup
        /\ response' = h.response
        /\ answered' =
             [answered EXCEPT ![data] =
                [first |-> IF @.times = 0 THEN h.response ELSE @.first,
                 times |-> IF @.times < MaxRepeats THEN @.times + 1 ELSE @.times]]
  /\ phase' = "done"
  /\ op' = "zscore"
  /\ request' = data
  /\ UNCHANGED <<calc, table, unit, threadVars>>

NextHist == \E data \in HistBodies : HistRequest(data)

SpecHist == InitHist /\ [][NextHist]_vars

-----------------------------------------------------------------------------
(* Properties *)

SixCategories ==
  {"severe_underweight", "underweight", "normal", "risk_overweight", "overweight",
   "obese"}

\* C1: classify_nutrition maps every non-null z-score to exactly one of the six
\* categories: z < -3 severe_underweight, -3 <= z < -2 underweight,
\* -2 <= z <= 1 normal, 1 < z <= 2 risk_overweight, 2 < z <= 3 overweight,
\* z > 3 obese (thresholds in thousandths).
C1_ClassifyBounds ==
  (op = "classify" /\ unit.value.some) =>
    LET z == unit.value.val
        c == unit.category
    IN /\ c \in SixCategories
       /\ (c = "severe_underweight") <=> (z < -3000)
       /\ (c = "underweight") <=> (-3000 <= z /\ z < -2000)
       /\ (c = "normal") <=> (-2000 <= z /\ z <= 1000)
       /\ (c = "risk_overweight") <=> (1000 < z /\ z <= 2000)
       /\ (c = "overweight") <=> (2000 < z /\ z <= 3000)
       /\ (c = "obese") <=> (z > 3000)

C1_Witness ==
  op = "classify" /\ unit.value = Some(1000) /\ unit.category = "normal"

\* C2: validate_measurement(value, (min, max)) is false for a null value and for
\* a value below min or above max, true for min <= value <= max (min and max
\* included), for every row of BOUNDS; the call changes nothing but its result.
C2_ValidateContract ==
  [][(op' = "validate") =>
       LET v == unit'.value
           min_val == BOUNDS[unit'.key][1]
           max_val == BOUNDS[unit'.key][2]
       IN /\ ~v.some => ~unit'.ok
          /\ (v.some /\ (v.val < min_val \/ v.val > max_val)) => ~unit'.ok
          /\ (v.some /\ min_val <= v.val /\ v.val <= max_val) => unit'.ok
          /\ BOUNDS["wfa"] = <<10, 300>> /\ BOUNDS["hfa"] = <<450, 1250>>
          /\ BOUNDS["hcfa"] = <<300, 550>> /\ BOUNDS["wfl_w"] = <<10, 300>>
          /\ BOUNDS["wfl_l"] = <<450, 1100>>
          /\ <<calc, request, engine, lookup, response>>'
               = <<calc, request, engine, lookup, response>>]_vars

C2_Witness ==
  op = "validate" /\ unit.key = "hfa" /\ unit.value = Some(1250) /\ unit.ok

\* The fields of the request as the handler reads them
WeightGiven == request.kind = "object" /\ as_float(request.weight).some
AgeGiven == request.kind = "object" /\ as_float(request.age_months).some
GenderIsMF ==
  /\ request.kind = "object"
  /\ \/ request.gender.k = "absent"
     \/ request.gender.k = "str" /\ request.gender.s \in {"M", "F", "m", "f"}

\* a measurement that is given and lies outside a row of BOUNDS
OutsideRow(value, key) == value.some /\ ~validate_measurement(value, BOUNDS[key])

\* the Measurement Validator applied to the weight and height of a request,
\* each against its row for the index kind
ValidatorAccepts(eng) ==
  IF eng.type.k # "str" THEN TRUE
  ELSE CASE eng.type.s = "wfa" -> ~OutsideRow(eng.weight, "wfa")
         [] eng.type.s = "hfa" -> ~OutsideRow(eng.height, "hfa")
         [] eng.type.s = "wfh" -> /\ ~OutsideRow(eng.weight, "wfl_w")
                                  /\ ~OutsideRow(eng.height, "wfl_l")
         [] OTHER -> TRUE

\* C3: calculate_z_score is invoked only with input the Measurement Validator
\* accepts: a weight or height outside its BOUNDS row for the requested index
\* kind never reaches calculate_z_score.
C3_ValidatedBeforeEngine ==
  (op = "zscore" /\ engine.invoked) => ValidatorAccepts(engine)

\* C4: a request with weight missing, age_months missing or a gender that is
\* not M or F is answered 400 with an error field and no z_score key, and
\* calculate_z_score is not invoked.
C4_MissingInputIs400 ==
  (op = "zscore" /\ request.kind = "object"
     /\ (~WeightGiven \/ ~AgeGiven \/ ~GenderIsMF)) =>
    /\ response.status = 400
    /\ "error" \in response.keys
    /\ "z_score" \notin response.keys
    /\ ~engine.invoked

\* C5: with weight, age_months and a valid gender present, a z-score that
\* cannot be computed (the lookup raises or returns nothing, or calc is None)
\* is answered 500 "Could not calculate z-score"; the failure of the lookup
\* does not reach the handler as an exception.
C5_NotComputableIs500 ==
  (op = "zscore" /\ WeightGiven /\ AgeGiven /\ GenderIsMF
     /\ (calc = "None" \/ lookup.result \in {"raise", "none"})) =>
    /\ engine.invoked
    /\ response.status = 500
    /\ response.keys = {"error"}
    /\ response.error = "Could not calculate z-score"

C5_Witness ==
  /\ op = "zscore" /\ calc = "Calculator" /\ WeightGiven /\ AgeGiven /\ GenderIsMF
  /\ lookup.made /\ lookup.result = "raise" /\ lookup.measurement.some
  /\ lookup.key.some
  /\ response.status = 500

\* C6: every 2xx response of POST /api/calculate-zscore has a numeric z_score
\* and a classification in one of the six categories; a null z-score ends in
\* a 500, never in a 2xx response with category unknown.
C6_SuccessIsClassified ==
  (op = "zscore") =>
    /\ (response.status \in 200..299) =>
         /\ {"z_score", "classification"} \subseteq response.keys
         /\ response.z_score.some
         /\ response.category \in SixCategories
         /\ lookup.made /\ lookup.result = "z"
    /\ (engine.invoked /\ lookup.result # "z") => response.status = 500

C6_Witness ==
  /\ op = "zscore" /\ response.status = 200 /\ response.category = "obese"
  /\ response.z_score = Some(300)

SupportedKinds == {"wfa", "hfa", "wfh", "bfa", "hcfa"}
KindSupported(type) == type.k = "str" /\ type.s \in SupportedKinds

YesCount(answers) == Cardinality({i \in DOMAIN answers : answers[i]})

\* C8: an accepted KPSP request with n questions has score = number of yes
\* answers and the result "Perkembangan Sesuai Usia" iff score >= 80% of n,
\* "Perkembangan Terduga Terlambat" iff 60% of n <= score < 80% of n,
\* "Perkembangan Terlambat" otherwise; with n = 5: 4-5, 3, 0-2 yes answers.
C8_KpspScoring ==
  (op = "kpsp" /\ response.status = 200) =>
    LET n == response.total_questions.val
        score == response.score.val
        result == response.result
    IN /\ request.answers.k = "list"
       /\ n = Len(request.answers.l)
       /\ score = YesCount(request.answers.l)
       /\ (result = "Perkembangan Sesuai Usia") <=> (10 * score >= 8 * n)
       /\ (result = "Perkembangan Terduga Terlambat")
            <=> (10 * score >= 6 * n /\ 10 * score < 8 * n)
       /\ (result = "Perkembangan Terlambat") <=> (10 * score < 6 * n)
       /\ n = 5 =>
            /\ (result = "Perkembangan Sesuai Usia") <=> (score \in {4, 5})
            /\ (result = "Perkembangan Terduga Terlambat") <=> (score = 3)
            /\ (result = "Perkembangan Terlambat") <=> (score \in {0, 1, 2})

C8_Witness ==
  /\ op = "kpsp" /\ response.status = 200 /\ response.total_questions = Some(5)
  /\ response.score = Some(3) /\ response.result = "Perkembangan Terduga Terlambat"

KpspKeys == DOMAIN KPSP_QUESTIONS

\* the largest key of KPSP_QUESTIONS that is <= a
IsBandOf(k, a) ==
  k \in KpspKeys /\ k <= a /\ \A j \in KpspKeys : j <= a => j <= k

\* C9: the question set of a child of age a is the one of the largest key of
\* KPSP_QUESTIONS (3, 6, ..., 24) that is <= a, and age_group is that key: an
\* age on a threshold selects it, an age between two thresholds the lower
\* one, every age >= 24 the 24-month set.
C9_LargestBandNotAboveAge ==
  (op = "kpsp" /\ response.status = 200) =>
    LET a == as_float(request.age_months).val
        g == response.age_group
    IN /\ KpspKeys = {3, 6, 9, 12, 15, 18, 21, 24}
       /\ g.some /\ IsBandOf(g.val, a)
       /\ a \in KpspKeys => g.val = a
       /\ a >= 24 => g.val = 24
       /\ response.total_questions.val = KPSP_QUESTIONS[g.val]

C9_Witness ==
  /\ op = "kpsp" /\ response.status = 200 /\ request.age_months = JNum(12)
  /\ response.age_group = Some(12)

NoScore ==
  /\ response.status = 400
  /\ response.keys = {"error"}
  /\ ~response.score.some

\* C10: POST /api/kpsp-evaluate answers 400 with an error field and no score
\* when age_months is missing, when the age is below the smallest band
\* (age < 3), or when the number of answers differs from the number of
\* questions of the selected band; an age below 3 gives the no-band error
\* whatever the answer list is.
C10_KpspRejections ==
  (op = "kpsp" /\ request.kind = "object") =>
    LET age == as_float(request.age_months)
        count == IF request.answers.k = "list" THEN Len(request.answers.l) ELSE 0
    IN /\ ~age.some => NoScore
       /\ (age.some /\ age.val < 3) =>
            /\ NoScore
            /\ response.error = "No KPSP questions available for this age"
       /\ \A k \in KpspKeys :
            (age.some /\ IsBandOf(k, age.val) /\ request.answers.k # "scalar"
               /\ count # KPSP_QUESTIONS[k]) =>
              /\ NoScore
              /\ response.error = "Number of answers doesn't match questions"

C10_Witness ==
  /\ op = "kpsp" /\ request.kind = "object" /\ request.age_months = JNum(2)
  /\ request.answers.k = "list" /\ Len(request.answers.l) = 5
  /\ response.status = 400
  /\ response.error = "No KPSP questions available for this age"

ExceptionTexts ==
  {"exception: no attribute get", "exception: no attribute upper",
   "exception: no len", "exception: lookup"}

\* a request on which a statement of the handler raises
RaisesInHandler ==
  \/ request.kind # "object"
  \/ op = "zscore" /\ request.gender.k \in {"null", "num"}
  \/ /\ op = "kpsp" /\ request.answers.k = "scalar"
     /\ as_float(request.age_months).some /\ as_float(request.age_months).val >= 3

\* C11: no request to POST /api/calculate-zscore or POST /api/kpsp-evaluate
\* lets an exception leave the handler: every body, a non-object one and a
\* non-string gender included, gets one response with status 200, 400 or
\* 500, and an unexpected exception is a 500 whose error is its text.
C11_NoExceptionEscapes ==
  (op \in {"zscore", "kpsp"}) =>
    /\ response.status \in {200, 400, 500}
    /\ response.keys # {}
    /\ (response.status # 200) <=> ("error" \in response.keys)
    /\ RaisesInHandler <=> (response.error \in ExceptionTexts)
    /\ RaisesInHandler => (response.status = 500 /\ response.keys = {"error"})

C11_Witness ==
  /\ op = "kpsp" /\ request.kind = "object" /\ request.answers.k = "scalar"
  /\ request.age_months = JNum(12)
  /\ response.status = 500 /\ response.error = "exception: no len"

\* the response a request gets when it is the only one served
AloneResponse(endpoint, data) ==
  IF endpoint = "zscore" THEN HandleZscore(data).response
  ELSE api_kpsp_evaluate(data)

\* C12: with requests served by several threads at once, no handler writes
\* process-wide state (calc, the reference table), and in every interleaving
\* each request gets the response it would get if it ran alone.
C12_ThreadsIndependent ==
  [][/\ calc' = calc
     /\ table' = table
     /\ \A t \in Threads :
          pc'[t] = "done" =>
            locals'[t].response = AloneResponse(locals'[t].endpoint, locals'[t].data)]_vars

C12_Witness ==
  /\ pc[1] = "done" /\ locals[1].endpoint = "zscore"
  /\ locals[1].response.status = 200
  /\ pc[2] = "checked" /\ locals[2].data # locals[1].data

C14_NullIsUnknown ==
  (op = "classify") =>
    /\ ~unit.value.some =>
         /\ unit.category = "unknown"
         /\ unit.status = "Tidak dapat dinilai"
         /\ unit.color = "#9e9e9e"
    /\ unit.value.some =>
         /\ unit.category # "unknown"
         /\ unit.status # "Tidak dapat dinilai"

C14_Witness ==
  /\ op = "classify" /\ ~unit.value.some /\ unit.category = "unknown"
  /\ calc = "None"

\* the body-mass index kg / m^2 in tenths, of a weight (tenths of kg) and a
\* height (tenths of cm)
BMI(weight, height) == Some((weight.val * 1000000) \div (height.val * height.val))

\* C15: the reference lookup gets the operands the index kind is defined on:
\* the row is selected by age_months for wfa, hfa, bfa and hcfa and by the
\* height only for wfh; the measurement is the weight for wfa and wfh, the
\* height for hfa, the BMI for bfa (for hcfa the request carries the head
\* circumference in its measurement field).
C15_OperandsOfKind ==
  (op = "zscore" /\ lookup.made) =>
    CASE lookup.method = "wfa" ->
           lookup.measurement = engine.weight /\ lookup.key = engine.age_months
      [] lookup.method = "hfa" ->
           lookup.measurement = engine.height /\ lookup.key = engine.age_months
      [] lookup.method = "wfh" ->
           lookup.measurement = engine.weight /\ lookup.key = engine.height
      [] lookup.method = "bfa" ->
           engine.height.some =>
             /\ lookup.key = engine.age_months
             /\ lookup.measurement = BMI(engine.weight, engine.height)
      [] lookup.method = "hcfa" ->
           lookup.key = engine.age_months

\* C16: every 2xx response of POST /api/calculate-zscore is self-consistent:
\* its category is classify_nutrition of the z_score it reports (the z-score
\* rounded to 2 decimals), also within 0.005 of the thresholds.
C16_CategoryOfReportedScore ==
  (op = "zscore" /\ response.status \in 200..299) =>
    response.category = classify_nutrition(Some(response.z_score.val * 10))

HeightGiven == request.kind = "object" /\ as_float(request.height).some

\* C17: the required-field check does not depend on the index kind: weight
\* and age_months are required for every type and height is never checked.
\* Without weight or without age_months the answer is 400 (also for hfa with
\* height and for wfh with weight and height); a request of type hfa, wfh or
\* bfa with weight and age_months but no height passes the check, reaches
\* calculate_z_score with a null height and ends in 500.
C17_RequiredFieldsSameForAllKinds ==
  (op = "zscore" /\ GenderIsMF) =>
    /\ (~WeightGiven \/ ~AgeGiven) =>
         /\ response.status = 400
         /\ response.error = "Weight and age are required"
         /\ ~engine.invoked
    /\ (WeightGiven /\ AgeGiven) =>
         /\ engine.invoked
         /\ response.status # 400
    /\ (WeightGiven /\ AgeGiven /\ ~HeightGiven
          /\ request.type \in {GStr("hfa"), GStr("wfh"), GStr("bfa")}) =>
         /\ ~engine.height.some
         /\ response.status = 500

C17_Witness ==
  /\ op = "zscore" /\ GenderIsMF /\ WeightGiven /\ AgeGiven /\ ~HeightGiven
  /\ request.type = GStr("wfh") /\ calc = "Calculator"
  /\ engine.invoked /\ lookup.made /\ response.status = 500

\* the gender of the request, normalised
NormalGender ==
  CASE request.gender.k = "absent" -> "M"
    [] request.gender.k = "str" /\ request.gender.s \in {"M", "m"} -> "M"
    [] request.gender.k = "str" /\ request.gender.s \in {"F", "f"} -> "F"
    [] OTHER -> "?"

\* C18: POST /api/calculate-zscore normalises the gender before checking it:
\* without a gender key the request is computed as male and not rejected,
\* "m" and "f" are accepted as M and F, inputs.gender is the normalised
\* upper-case value, and a gender that is present but not a string ends in
\* 500, not 400, also when weight is missing.
C18_GenderNormalised ==
  (op = "zscore" /\ request.kind = "object") =>
    /\ (NormalGender # "?") =>
         /\ response.error # "Gender must be M or F"
         /\ (WeightGiven /\ AgeGiven) =>
              /\ response.status # 400
              /\ engine.invoked /\ engine.gender = NormalGender
              /\ lookup.made => lookup.sex = NormalGender
         /\ (response.status = 200) => response.gender = NormalGender
    /\ (request.gender.k \in {"null", "num"}) =>
         /\ response.status = 500
         /\ ~engine.invoked

C18_Witness ==
  /\ op = "zscore" /\ request.kind = "object" /\ request.gender = GStr("f")
  /\ response.status = 200 /\ response.gender = "F" /\ lookup.sex = "F"

====
